---- MODULE Spec2Model ----
(***************************************************************************)
(* Differential inverse-kinematics controller of robosuite                 *)
(* (src/robosuite/controllers/differential_ik.py) as a state machine.      *)
(*                                                                         *)
(* Numbers are exact integers:                                             *)
(*   - action positions and ik_pos_limit are in centimetres;               *)
(*   - every stored position (ee_pos, reference_target_pos, dpos after     *)
(*     the sensitivity scaling) is in 1/UserSensDen centimetres, so that   *)
(*     "x * user_sensitivity" is the exact product x * UserSensNum;        *)
(*   - action angles and ik_ori_limit are in tenths of a radian, joint     *)
(*     angles in 1/RadUnit of that (hundredths of a radian);               *)
(*   - a quaternion (x, y, z, w) is the tuple <<X, Y, Z, W, N2>> standing  *)
(*     for (X, Y, Z, W) / sqrt(N2); it is a unit quaternion exactly when   *)
(*     X*X + Y*Y + Z*Z + W*W = N2;                                         *)
(*   - a 3x3 matrix is <<row1, row2, row3, D>> standing for rows / D.      *)
(* Python's None is the empty tuple.                                       *)
(***************************************************************************)
EXTENDS Integers, Sequences, FiniteSets, TLC

None == <<>>

(* ---------------------------------------------------------------------- *)
(* Bounds of the model                                                     *)
(* ---------------------------------------------------------------------- *)
MaxGoals == 2
MaxNorm == 40

(* ---------------------------------------------------------------------- *)
(* Program constants and construction arguments                            *)
(* ---------------------------------------------------------------------- *)
UserSensNum == 3
UserSensDen == 10
Kp == 10
RadUnit == 10
JointDim == 2
ik_pos_limit == 5
ik_ori_limit == 19

(* ---------------------------------------------------------------------- *)
(* Integer helpers                                                         *)
(* ---------------------------------------------------------------------- *)
Abs(n) == IF n < 0 THEN -n ELSE n

Min(a, b) == IF a < b THEN a ELSE b

RECURSIVE GCD(_, _)
GCD(a, b) == IF b = 0 THEN a ELSE GCD(b, a % b)

ISqrt(n) == CHOOSE r \in 0..MaxNorm : r * r <= n /\ (r + 1) * (r + 1) > n

(* numpy vector arithmetic *)
VAdd(a, b) == [i \in DOMAIN a |-> a[i] + b[i]]

VSub(a, b) == [i \in DOMAIN a |-> a[i] - b[i]]

VScale(a, k) == [i \in DOMAIN a |-> a[i] * k]

RECURSIVE SumSq(_, _)
SumSq(v, n) == IF n = 0 THEN 0 ELSE v[n] * v[n] + SumSq(v, n - 1)

NormSq(v) == SumSq(v, Len(v))

Norm(v) == ISqrt(NormSq(v))

VAny(v) == \E i \in DOMAIN v : v[i] # 0

(* delta[a:b] of Python, 0-based half-open, clamped to the length *)
Slice(s, a, b) == IF Min(b, Len(s)) <= a THEN <<>> ELSE SubSeq(s, a + 1, Min(b, Len(s)))

(* ---------------------------------------------------------------------- *)
(* robosuite.utils.transform_utils (imported as T)                         *)
(* ---------------------------------------------------------------------- *)

(* sin and cos of half the angle, as <<sin * d, cos * d, d>>, for the      *)
(* angles (tenths of a radian) whose half-angle sine and cosine are        *)
(* rational *)
HalfAngleTrig(angle) ==
    CASE angle = 0 -> <<0, 1, 1>>
      [] angle = 10 -> <<8, 15, 17>>
      [] angle = 13 -> <<3, 4, 5>>
      [] angle = 19 -> <<4, 3, 5>>
      [] angle = 31 -> <<1, 0, 1>>

QuatIdentity == <<0, 0, 0, 1, 1>>

QuatGcd(q) == GCD(GCD(Abs(q[1]), Abs(q[2])), GCD(Abs(q[3]), Abs(q[4])))

(* the same quaternion with the common factor of its components removed *)
QuatReduce(q) ==
    LET g == QuatGcd(q)
    IN  IF g > 1 /\ q[5] % (g * g) = 0
        THEN <<q[1] \div g, q[2] \div g, q[3] \div g, q[4] \div g, q[5] \div (g * g)>>
        ELSE q

QuatNormSq(q) == q[1] * q[1] + q[2] * q[2] + q[3] * q[3] + q[4] * q[4]

IsUnitQuat(q) == Len(q) = 5 /\ q[5] > 0 /\ QuatNormSq(q) = q[5]

(* T.clip_translation(dpos, limit): scale down to the limit, keep direction *)
ClipTranslation(dpos, limit) ==
    IF NormSq(dpos) > limit * limit
    THEN [i \in DOMAIN dpos |-> (dpos[i] * limit) \div Norm(dpos)]
    ELSE dpos

(* T.axisangle2quat raises on a non-zero vector that is neither a 1- nor a *)
(* 3-vector (numpy cannot broadcast it into q[:3]) *)
AxisAngleBad(vec) == VAny(vec) /\ Len(vec) \notin {1, 3}

(* T.axisangle2quat(vec): angle = |vec|, axis = vec / angle,               *)
(* q = (axis * sin(angle/2), cos(angle/2)); a 1-vector is broadcast to     *)
(* the three vector components *)
AxisAngle2Quat(vec) ==
    IF ~VAny(vec) THEN QuatIdentity
    ELSE LET angle == Norm(vec)
             t == HalfAngleTrig(angle)
             ax == IF Len(vec) = 1 THEN <<vec[1], vec[1], vec[1]>> ELSE vec
         IN  QuatReduce(<<ax[1] * t[1], ax[2] * t[1], ax[3] * t[1], angle * t[2],
                          (angle * t[3]) * (angle * t[3])>>)

(* T.clip_rotation(quat, limit): normalise, then limit the rotation angle  *)
(* a = 2 * acos(w) to the limit about the same axis.  a > limit iff        *)
(* w < cos(limit / 2) *)
ClipRotation(quat, limit) ==
    LET n2 == QuatNormSq(quat)
        q == <<quat[1], quat[2], quat[3], quat[4], n2>>
        t == HalfAngleTrig(limit)
        vn2 == n2 - quat[4] * quat[4]
        m == ISqrt(vn2)
        over == \/ (quat[4] < 0 /\ t[2] >= 0)
                \/ (quat[4] >= 0 /\ quat[4] * quat[4] * t[3] * t[3] < t[2] * t[2] * n2)
    IN  IF vn2 = 0 THEN QuatReduce(q)
        ELSE IF over
             THEN QuatReduce(<<quat[1] * t[1], quat[2] * t[1], quat[3] * t[1], m * t[2],
                               (m * t[3]) * (m * t[3])>>)
             ELSE QuatReduce(q)

(* T.quat_multiply(quaternion1, quaternion0) = quaternion1 * quaternion0 *)
QuatMultiply(q1, q0) ==
    QuatReduce(<<
        q1[1] * q0[4] + q1[2] * q0[3] - q1[3] * q0[2] + q1[4] * q0[1],
        q1[2] * q0[4] + q1[3] * q0[1] - q1[1] * q0[3] + q1[4] * q0[2],
        q1[1] * q0[2] - q1[2] * q0[1] + q1[3] * q0[4] + q1[4] * q0[3],
        q1[4] * q0[4] - q1[1] * q0[1] - q1[2] * q0[2] - q1[3] * q0[3],
        q1[5] * q0[5]>>)

MatGcd(m) ==
    LET g(r) == GCD(GCD(Abs(r[1]), Abs(r[2])), Abs(r[3]))
    IN  GCD(GCD(g(m[1]), g(m[2])), GCD(g(m[3]), m[4]))

MatReduce(m) ==
    LET g == MatGcd(m)
        r(k) == <<m[k][1] \div g, m[k][2] \div g, m[k][3] \div g>>
    IN  IF g > 1 THEN <<r(1), r(2), r(3), m[4] \div g>> ELSE m

(* T.quat2mat(quaternion): rotation matrix of the normalised quaternion *)
Quat2Mat(q) ==
    LET n == QuatNormSq(q)
        x == q[1]
        y == q[2]
        z == q[3]
        w == q[4]
    IN  MatReduce(<<
          <<n - 2 * (y * y + z * z), 2 * (x * y - z * w), 2 * (x * z + y * w)>>,
          <<2 * (x * y + z * w), n - 2 * (x * x + z * z), 2 * (y * z - x * w)>>,
          <<2 * (x * z - y * w), 2 * (y * z + x * w), n - 2 * (x * x + y * y)>>,
          n>>)

(* T.mat2quat(rmat): unit quaternion (x, y, z, w) of a rotation matrix,    *)
(* with w >= 0 *)
Mat2Quat(m) ==
    LET d == m[4]
        tr == m[1][1] + m[2][2] + m[3][3]
        v == IF tr >= m[1][1] /\ tr >= m[2][2] /\ tr >= m[3][3]
             THEN <<m[3][2] - m[2][3], m[1][3] - m[3][1], m[2][1] - m[1][2], d + tr>>
             ELSE IF m[1][1] >= m[2][2] /\ m[1][1] >= m[3][3]
             THEN <<d + 2 * m[1][1] - tr, m[1][2] + m[2][1], m[1][3] + m[3][1],
                    m[3][2] - m[2][3]>>
             ELSE IF m[2][2] >= m[3][3]
             THEN <<m[1][2] + m[2][1], d + 2 * m[2][2] - tr, m[2][3] + m[3][2],
                    m[1][3] - m[3][1]>>
             ELSE <<m[1][3] + m[3][1], m[2][3] + m[3][2], d + 2 * m[3][3] - tr,
                    m[2][1] - m[1][2]>>
        s == IF v[4] < 0 THEN -1 ELSE 1
        u == <<s * v[1], s * v[2], s * v[3], s * v[4]>>
    IN  QuatReduce(<<u[1], u[2], u[3], u[4], NormSq(u)>>)

(* ---------------------------------------------------------------------- *)
(* Pure helpers of DifferentialInverseKinematicsController                 *)
(* ---------------------------------------------------------------------- *)

(* control_dim as computed by __init__ *)
ControlDim(uo, uz) == (IF uo THEN 6 ELSE 3) + (IF uz THEN 1 ELSE 0)

Ones(n, x) == [i \in 1..n |-> x]

(* the control_limits property: <<-max_limit, max_limit>> *)
ControlLimits(uo, uz) ==
    LET max_limit == IF uo THEN Ones(3, ik_pos_limit) \o Ones(3, ik_ori_limit)
                     ELSE IF uz THEN Ones(3, ik_pos_limit) \o Ones(1, ik_ori_limit)
                     ELSE Ones(3, ik_pos_limit)
    IN  <<VScale(max_limit, -1), max_limit>>

(* _clip_ik_input clipping the position to the orientation limit *)
ClipIkInputPosByOriLimit(dpos) ==
    IF VAny(dpos) THEN ClipTranslation(dpos, ik_ori_limit) ELSE dpos

(* _clip_ik_input, positional part: clip only a non-zero delta *)
ClipIkInputPos(dpos) ==
    IF VAny(dpos) THEN ClipTranslation(dpos, ik_pos_limit) ELSE dpos

(* _clip_ik_input, rotational part: axis-angle to quaternion, then clip *)
ClipIkInputRot(rotation) == ClipRotation(AxisAngle2Quat(rotation), ik_ori_limit)

(* x * self.user_sensitivity, in stored position units *)
ScaleSens(dpos) == VScale(dpos, UserSensNum)

(* a limit in centimetres, in stored position units *)
StoredLimit(limit) == limit * UserSensDen

(* the fixed orientation of the position-only modes *)
SetOri == <<<<0, 1, 0>>, <<1, 0, 0>>, <<0, 0, -1>>, 1>>

(* ---------------------------------------------------------------------- *)
(* Collaborators: simulator, interpolators, control_utils                  *)
(* ---------------------------------------------------------------------- *)

(* poses the simulated arm can be in *)
SimPoses == {0, 1}

SimEEPos(k) == <<15 * k, -20 * k, 0>>

SimEEOri(k) == IF k % 2 = 0 THEN SetOri ELSE <<<<0, -1, 0>>, <<1, 0, 0>>, <<0, 0, 1>>, 1>>

SimJointPos(k) == [i \in 1..JointDim |-> IF i = 1 THEN 30 * k ELSE -50 * k]

(* <<order of interpolator_pos, order of interpolator_ori>> a controller is *)
(* constructed with; 0 stands for "no interpolator" *)
InterpConfigs == {<<0, 0>>, <<1, 0>>, <<0, 1>>, <<1, 1>>, <<2, 0>>, <<0, 2>>}

NewInterpolator(order, zero) ==
    IF order = 0 THEN None ELSE <<[order |-> order, goal |-> zero]>>

(* Interpolator.set_goal(goal): replace the pending goal *)
InterpSetGoal(ip, goal) ==
    IF ip = None THEN ip ELSE <<[ip[1] EXCEPT !.goal = goal]>>

(* Interpolator.get_interpolated_goal() of a linear interpolator whose ramp *)
(* is one control tick long: the value at the end of that tick *)
InterpValue(ip) == ip[1].goal

Cross(a, b) ==
    <<a[2] * b[3] - a[3] * b[2], a[3] * b[1] - a[1] * b[3], a[1] * b[2] - a[2] * b[1]>>

Col(m, j) == <<m[1][j], m[2][j], m[3][j]>>

(* control_utils.orientation_error(desired, current) =                     *)
(* 0.5 * sum of cross(current column, desired column), as <<e, denom>>     *)
OrientationError(desired, current) ==
    LET e == VAdd(VAdd(Cross(Col(current, 1), Col(desired, 1)),
                       Cross(Col(current, 2), Col(desired, 2))),
                  Cross(Col(current, 3), Col(desired, 3)))
    IN  <<e[1], e[2], e[3], 2 * desired[4] * current[4]>>

(* ---------------------------------------------------------------------- *)
(* State                                                                    *)
(* ---------------------------------------------------------------------- *)
VARIABLES
    use_ori, use_z_ori,             \* orientation mode, fixed at construction
    interpolator_pos, interpolator_ori,
    sim,                            \* pose of the simulated arm
    ee_pos, ee_ori_mat, joint_pos,  \* the controller's last observation
    reference_target_pos, reference_target_orn,
    ref_shares_ee,                  \* reference_target_pos is the array ee_pos
    ori_ref, relative_ori,
    ik_robot_target_pos, ik_robot_target_orn,
    base_orn_offset_inv, rotation_offset, ik_robot_target_pos_offset,
    commanded_joint_positions, commanded_joint_velocities,
    goal_vel,                       \* goal of the underlying velocity controller
    pc,                             \* "idle", or "pdb": stopped in pdb.set_trace()
    call,                           \* arguments of the latest get_control call
    goal_delta,                     \* argument of the set_goal call, if it is the latest
    last_op, outcome,               \* the latest controller call and how it ended
    after_reset,                    \* that call directly followed a reset_goal()
    n_goals,                        \* set_goal calls made so far
    before_goal,                    \* what the set_goal call found on entry, if it is the latest
    interp_calls,                   \* interpolator methods invoked by the latest call
    clip_in, clip_out,              \* argument and result of a lone _clip_ik_input call
    reward_scale, reward_shaping,   \* Push: reward configuration
    push_obs,                       \* Push: distances read from the simulator
    push_reward,                    \* Push: result of the latest reward() call
    table_top_offset, mujoco_objects,   \* TableTopTask: the arena's table top, the objects
    objects_pos,                    \* TableTopTask: the 'pos' attribute of each object
    placed_objects, place_index, place_tries,   \* place_objects: its locals
    place_pc                        \* place_objects: where the call is

ctrlVars == <<use_ori, use_z_ori, interpolator_pos, interpolator_ori, sim,
          ee_pos, ee_ori_mat, joint_pos, reference_target_pos, reference_target_orn,
          ref_shares_ee, ori_ref, relative_ori, ik_robot_target_pos, ik_robot_target_orn,
          base_orn_offset_inv, rotation_offset, ik_robot_target_pos_offset,
          commanded_joint_positions, commanded_joint_velocities, goal_vel,
          pc, call, goal_delta, last_op, outcome, after_reset, n_goals,
          before_goal, interp_calls>>

pushVars == <<reward_scale, reward_shaping, push_obs, push_reward>>

placeVars == <<table_top_offset, mujoco_objects, objects_pos, placed_objects,
               place_index, place_tries, place_pc>>

vars == <<ctrlVars, clip_in, clip_out, pushVars, placeVars>>

(* what no controller operation writes *)
cfgVars == <<use_ori, use_z_ori, base_orn_offset_inv, rotation_offset,
             ik_robot_target_pos_offset, clip_in, clip_out, pushVars,
             placeVars>>

(* no interpolator method invoked *)
NoInterpCalls == [pos_set_goal |-> 0, ori_set_goal |-> 0,
                  pos_get_interpolated_goal |-> 0, ori_get_interpolated_goal |-> 0]

NoCall == [op |-> "none", dpos |-> None, rotation |-> None, desired_rotation |-> None,
           z_rot |-> None, update_targets |-> FALSE]

(* __init__ *)
InitController ==
    /\ use_ori \in BOOLEAN
    /\ use_z_ori \in BOOLEAN
    /\ \E o \in InterpConfigs :
          /\ interpolator_pos = NewInterpolator(o[1], <<0, 0, 0>>)
          /\ interpolator_ori = NewInterpolator(o[2], QuatIdentity)
    /\ sim \in SimPoses
    /\ ee_pos = SimEEPos(sim)
    /\ ee_ori_mat = SimEEOri(sim)
    /\ joint_pos = SimJointPos(sim)
    /\ reference_target_pos = ee_pos
    /\ reference_target_orn = Mat2Quat(ee_ori_mat)
    /\ ref_shares_ee = TRUE
    /\ ori_ref = None
    /\ relative_ori = None
    /\ ik_robot_target_pos = None
    /\ ik_robot_target_orn = None
    /\ base_orn_offset_inv = None
    /\ rotation_offset = None
    /\ ik_robot_target_pos_offset = None
    /\ commanded_joint_positions = None
    /\ commanded_joint_velocities = None
    /\ goal_vel = None
    /\ pc = "idle"
    /\ call = NoCall
    /\ goal_delta = None
    /\ before_goal = None
    /\ interp_calls = NoInterpCalls
    /\ last_op = "init"
    /\ after_reset = FALSE
    /\ outcome = "ok"
    /\ n_goals = 0

(* a Push environment with its defaults (reward_scale=1.0,                 *)
(* reward_shaping=False), the cylinder on its goal, reward() not called *)
PushIdle ==
    /\ reward_scale = <<10>>
    /\ reward_shaping = FALSE
    /\ push_obs = [gripper_dist |-> 0, goal_dist_xy |-> 0, goal_dist |-> 0]
    /\ push_reward = None

(* the table of the stacking task, in grid units: full_size *)
TableSize == <<6, 6, 6>>

(* table_top_abs of the arena: at the world origin, and after               *)
(* set_origin([0.16 + table_size[0] / 2, 0, 0]) of SawyerStackEnv *)
TableTopOffsets == {<<0, 0, 6>>, <<4, 0, 6>>}

(* the two cubes of SawyerStackEnv: horizontal radius and bottom offset *)
MujocoObjects ==
    <<[horizontal_radius |-> 1, bottom_offset |-> <<0, 0, -1>>],
      [horizontal_radius |-> 1, bottom_offset |-> <<0, 0, -1>>]>>

(* a TableTopTask on which place_objects() has not been called *)
PlaceIdle ==
    /\ table_top_offset = <<0, 0, 6>>
    /\ mujoco_objects = MujocoObjects
    /\ objects_pos = [k \in 1..Len(MujocoObjects) |-> None]
    /\ placed_objects = <<>>
    /\ place_index = 0
    /\ place_tries = 0
    /\ place_pc = "idle"

Init ==
    /\ InitController
    /\ clip_in = <<0, 0, 0>>
    /\ clip_out = None
    /\ PushIdle
    /\ PlaceIdle

(* ---------------------------------------------------------------------- *)
(* Operations                                                               *)
(* ---------------------------------------------------------------------- *)

(* the action vectors handed to set_goal *)
Actions ==
    { <<0, 0, 0>>,
      <<-3, 0, 4, 13>>,
      <<0, 0, 0, 0, 0, 0>>, <<10, 0, 0, 13, 0, 0>>, <<-3, 0, 4, 0, 0, 31>>,
      <<10, 0, 0, 13, 0, 0, 5>> }

(* _make_input scaling by the sensitivity before it clips *)
MakeInputDposScaledFirst(action) ==
    ClipTranslation(ScaleSens(Slice(action, 0, 3)), StoredLimit(ik_pos_limit))

(* _make_input: dpos * self.user_sensitivity of the clipped action[:3] *)
MakeInputDpos(action) == ScaleSens(ClipIkInputPos(Slice(action, 0, 3)))

(* _make_input leaving the reference orientation alone in the position-only *)
(* modes *)
MakeInputOrnNotPinned(action, old_quat, uo) ==
    IF uo THEN QuatMultiply(old_quat, ClipIkInputRot(Slice(action, 3, Len(action))))
    ELSE old_quat

(* _make_input composing the reference with the raw, unclipped rotation *)
MakeInputOrnUnclipped(action, old_quat, uo) ==
    IF uo THEN QuatMultiply(old_quat, AxisAngle2Quat(Slice(action, 3, Len(action))))
    ELSE Mat2Quat(SetOri)

(* _make_input taking the rotation from the action in every mode *)
MakeInputOrnFromAction(action, old_quat, uo) ==
    QuatMultiply(old_quat, ClipIkInputRot(Slice(action, 3, Len(action))))

(* _make_input: the new reference_target_orn *)
MakeInputOrn(action, old_quat, uo) ==
    IF uo THEN QuatMultiply(old_quat, ClipIkInputRot(Slice(action, 3, Len(action))))
    ELSE Mat2Quat(SetOri)

(* _make_input: output['z_rot'] *)
MakeInputZRot(action) == <<ik_ori_limit * action[4]>>

(* _make_input(action, old_quat): the updated reference targets and the     *)
(* returned dictionary; exc names the exception it ends in, if any *)
MakeInput(action, old_quat, ref_pos, uo, uz) ==
    LET dpos == MakeInputDpos(action)
        moved == [exc |-> "", reference_target_orn |-> MakeInputOrn(action, old_quat, uo),
                  reference_target_pos |-> VAdd(ref_pos, dpos), dpos |-> dpos,
                  rotation |-> None, desired_rotation |-> None, z_rot |-> None]
    IN  IF uo
        THEN IF AxisAngleBad(Slice(action, 3, Len(action)))
             THEN [moved EXCEPT !.exc = "ValueError", !.reference_target_orn = old_quat,
                                !.reference_target_pos = ref_pos]
             ELSE [moved EXCEPT
                     !.rotation = Quat2Mat(ClipIkInputRot(Slice(action, 3, Len(action))))]
        ELSE IF uz
             THEN IF Len(action) < 4
                  THEN [moved EXCEPT !.exc = "IndexError"]
                  ELSE [moved EXCEPT !.desired_rotation = SetOri,
                                     !.z_rot = MakeInputZRot(action)]
             ELSE [moved EXCEPT !.desired_rotation = SetOri]

(* update() skipped as redundant: the observation arrays stay as they are *)
UpdateSkipped == UNCHANGED <<ee_pos, ee_ori_mat, joint_pos>>

(* Controller.update(): read the pose of the arm from the simulator into   *)
(* freshly built arrays *)
Update ==
    /\ ee_pos' = SimEEPos(sim)
    /\ ee_ori_mat' = SimEEOri(sim)
    /\ joint_pos' = SimJointPos(sim)

(* set_goal handing the position interpolator the reference after the      *)
(* move plus the scaled delta *)
SetGoalInterpPosGoalTwice(dpos, ref_pos) ==
    VAdd(ScaleSens(dpos), VAdd(ScaleSens(dpos), ref_pos))

(* set_goal, line 278: the goal handed to the position interpolator *)
SetGoalInterpPosGoal(dpos, ref_pos) == VAdd(ScaleSens(dpos), ref_pos)

(* set_goal handing the orientation interpolator the absolute target *)
SetGoalInterpOriGoalAbsolute(dquat, ref_orn) == QuatMultiply(ref_orn, dquat)

(* set_goal, line 282: the goal handed to the orientation interpolator *)
SetGoalInterpOriGoal(dquat, ref_orn) == dquat

(* set_goal(delta), up to its return, its exception, or the debugger stop   *)
(* inside joint_positions_for_eef_command *)
SetGoal(delta) ==
    /\ pc = "idle"
    /\ n_goals < MaxGoals
    /\ Update
    /\ n_goals' = n_goals + 1
    /\ goal_delta' = delta
    /\ before_goal' = [reference_target_pos |-> reference_target_pos,
                       reference_target_orn |-> reference_target_orn,
                       interpolator_pos |-> interpolator_pos,
                       interpolator_ori |-> interpolator_ori,
                       ik_robot_target_pos |-> ik_robot_target_pos,
                       goal_vel |-> goal_vel]
    /\ last_op' = "set_goal"
    /\ after_reset' = FALSE
    /\ UNCHANGED <<cfgVars, sim, ik_robot_target_pos, ik_robot_target_orn,
                   commanded_joint_positions, commanded_joint_velocities, goal_vel>>
    /\ IF AxisAngleBad(Slice(delta, 3, 7))
       THEN /\ outcome' = "ValueError"
            /\ pc' = "idle"
            /\ ref_shares_ee' = FALSE
            /\ interp_calls' = NoInterpCalls
            /\ UNCHANGED <<interpolator_pos, interpolator_ori, reference_target_pos,
                           reference_target_orn, ori_ref, relative_ori, call>>
       ELSE \E mi \in {MakeInput(delta, reference_target_orn, reference_target_pos,
                                 use_ori, use_z_ori)} :
            LET dpos == ClipIkInputPos(Slice(delta, 0, 3))
                dquat == ClipIkInputRot(Slice(delta, 3, 7))
                exc == IF mi.exc # "" THEN mi.exc
                       ELSE IF use_ori /\ use_z_ori THEN "KeyError" ELSE ""
            IN  /\ interpolator_pos' =
                     InterpSetGoal(interpolator_pos,
                                   SetGoalInterpPosGoal(dpos, reference_target_pos))
                /\ interpolator_ori' =
                     InterpSetGoal(interpolator_ori,
                                   SetGoalInterpOriGoal(dquat, reference_target_orn))
                /\ interp_calls' =
                     [NoInterpCalls EXCEPT
                        !.pos_set_goal = IF interpolator_pos # None THEN 1 ELSE 0,
                        !.ori_set_goal = IF interpolator_ori # None THEN 1 ELSE 0]
                /\ IF interpolator_ori # None
                   THEN ori_ref' = ee_ori_mat' /\ relative_ori' = <<0, 0, 0, 1>>
                   ELSE UNCHANGED <<ori_ref, relative_ori>>
                /\ reference_target_orn' = mi.reference_target_orn
                /\ reference_target_pos' = mi.reference_target_pos
                /\ ref_shares_ee' = FALSE
                /\ IF exc # ""
                   THEN outcome' = exc /\ pc' = "idle" /\ UNCHANGED call
                   ELSE /\ outcome' = "pending"
                        /\ pc' = "pdb"
                        /\ call' = [op |-> "set_goal", dpos |-> mi.dpos,
                                    rotation |-> IF use_ori THEN mi.rotation ELSE None,
                                    desired_rotation |->
                                        IF use_ori THEN None ELSE mi.desired_rotation,
                                    z_rot |-> IF use_z_ori THEN mi.z_rot ELSE None,
                                    update_targets |-> TRUE]

(* run_controller subtracting ee_pos from desired_pos in place *)
RunControllerRefPosInPlace(ref_pos, ee) == VSub(ref_pos, ee)

(* run_controller, lines 332 and 350: desired_pos is the array              *)
(* reference_target_pos itself, and desired_pos - self.ee_pos builds a new  *)
(* array, so the reference keeps its value *)
RunControllerRefPos(ref_pos, ee) == ref_pos

(* update_velocity_goal set only where the interpolation order is 1 *)
UpdateVelocityGoalLinearOnly(ip, io) ==
    \/ (ip # None /\ ip[1].order = 1)
    \/ (io # None /\ io[1].order = 1)

(* run_controller: update_velocity_goal, set for every configured          *)
(* interpolator whatever its order (lines 329 and 343) *)
UpdateVelocityGoal(ip, io) == ip # None \/ io # None

(* run_controller(), up to its return, its exception, or the debugger stop *)
RunController ==
    /\ pc = "idle"
    /\ Update
    /\ last_op' = "run_controller"
    /\ goal_delta' = None
    /\ before_goal' = None
    /\ after_reset' = (last_op = "reset_goal")
    /\ ref_shares_ee' = FALSE
    /\ UNCHANGED <<cfgVars, sim, reference_target_orn,
                   ik_robot_target_pos, ik_robot_target_orn, ori_ref,
                   commanded_joint_positions, commanded_joint_velocities, goal_vel,
                   n_goals>>
    /\ LET pos_lin == interpolator_pos # None /\ interpolator_pos[1].order = 1
           ori_lin == interpolator_ori # None /\ interpolator_ori[1].order = 1
           desired_pos == IF interpolator_pos = None THEN reference_target_pos
                          ELSE IF pos_lin THEN InterpValue(interpolator_pos)
                          ELSE None
           ori_exc == ori_lin /\ ori_ref = None
           rotation == IF interpolator_ori = None THEN Quat2Mat(reference_target_orn)
                       ELSE IF ori_lin THEN Quat2Mat(InterpValue(interpolator_ori))
                       ELSE None
           update_velocity_goal == UpdateVelocityGoal(interpolator_pos, interpolator_ori)
       IN  /\ UNCHANGED <<interpolator_pos, interpolator_ori>>
           /\ interp_calls' =
                [NoInterpCalls EXCEPT
                   !.pos_get_interpolated_goal = IF pos_lin THEN 1 ELSE 0,
                   !.ori_get_interpolated_goal = IF ori_lin /\ ~ori_exc THEN 1 ELSE 0]
           /\ reference_target_pos' =
                IF interpolator_pos = None /\ update_velocity_goal /\ ~ori_exc
                THEN RunControllerRefPos(reference_target_pos, ee_pos')
                ELSE reference_target_pos
           /\ relative_ori' =
                IF ori_lin /\ ~ori_exc THEN OrientationError(ee_ori_mat', ori_ref)
                ELSE relative_ori
           /\ IF ori_exc \/ (update_velocity_goal /\ desired_pos = None)
              THEN outcome' = "TypeError" /\ pc' = "idle" /\ UNCHANGED call
              ELSE IF update_velocity_goal
              THEN /\ outcome' = "pending"
                   /\ pc' = "pdb"
                   /\ call' = [op |-> "run_controller",
                               dpos |-> VSub(desired_pos, ee_pos'),
                               rotation |-> rotation, desired_rotation |-> None,
                               z_rot |-> None, update_targets |-> FALSE]
              ELSE outcome' = "ok" /\ pc' = "idle" /\ UNCHANGED call

(* reset_goal() resetting the position only *)
ResetGoalPosOnly ==
    /\ pc = "idle"
    /\ reference_target_pos' = ee_pos
    /\ ref_shares_ee' = TRUE
    /\ last_op' = "reset_goal"
    /\ goal_delta' = None
    /\ before_goal' = None
    /\ after_reset' = FALSE
    /\ outcome' = "ok"
    /\ interp_calls' = NoInterpCalls
    /\ UNCHANGED <<cfgVars, interpolator_pos, interpolator_ori, sim, ee_pos, ee_ori_mat,
                   joint_pos, reference_target_orn, ori_ref, relative_ori,
                   ik_robot_target_pos, ik_robot_target_orn, commanded_joint_positions,
                   commanded_joint_velocities, goal_vel, pc, call, n_goals>>

(* reset_goal() *)
ResetGoal ==
    /\ pc = "idle"
    /\ reference_target_pos' = ee_pos
    /\ reference_target_orn' = Mat2Quat(ee_ori_mat)
    /\ ref_shares_ee' = TRUE
    /\ last_op' = "reset_goal"
    /\ goal_delta' = None
    /\ before_goal' = None
    /\ after_reset' = FALSE
    /\ outcome' = "ok"
    /\ interp_calls' = NoInterpCalls
    /\ UNCHANGED <<cfgVars, interpolator_pos, interpolator_ori, sim, ee_pos, ee_ori_mat,
                   joint_pos, ori_ref, relative_ori, ik_robot_target_pos,
                   ik_robot_target_orn, commanded_joint_positions,
                   commanded_joint_velocities, goal_vel, pc, call, n_goals>>

(* numpy a @ b for 3x3 matrices *)
MatMul(a, b) ==
    LET e(i, j) == a[i][1] * b[1][j] + a[i][2] * b[2][j] + a[i][3] * b[3][j]
        r(i) == <<e(i, 1), e(i, 2), e(i, 3)>>
    IN  MatReduce(<<r(1), r(2), r(3), a[4] * b[4]>>)

(* joint_positions_for_eef_command(dpos, rotation, desired_rotation,       *)
(* update_targets) from the line after pdb.set_trace(): the exception it   *)
(* ends in (if any), the ik_robot_target_* it leaves, and its return value *)
JointPositionsForEefCommand(c) ==
    LET interp == interpolator_pos # None \/ interpolator_ori # None
        stay == [exc |-> "TypeError", ik_pos |-> ik_robot_target_pos,
                 ik_orn |-> ik_robot_target_orn, ret |-> None]
    IN  IF \/ base_orn_offset_inv = None
           \/ rotation_offset = None
           \/ (c.rotation = None /\ c.desired_rotation = None)
        THEN stay
        ELSE IF \/ c.dpos = None
                \/ (interp /\ ik_robot_target_pos_offset = None)
                \/ (~interp /\ ik_robot_target_pos = None)
                \/ (c.update_targets /\ ik_robot_target_pos = None)
        THEN stay
        ELSE LET rotation ==
                   IF c.rotation # None
                   THEN MatMul(MatMul(MatMul(base_orn_offset_inv, ee_ori_mat), c.rotation),
                               rotation_offset)
                   ELSE MatMul(MatMul(base_orn_offset_inv, c.desired_rotation),
                               rotation_offset)
             IN  [exc |-> "",
                  ik_pos |-> IF c.update_targets THEN VAdd(ik_robot_target_pos, c.dpos)
                             ELSE ik_robot_target_pos,
                  ik_orn |-> IF c.update_targets THEN Mat2Quat(rotation)
                             ELSE ik_robot_target_orn,
                  ret |-> None]

(* _get_current_error(current, set_point) *)
GetCurrentError(current, set_point) == VSub(current, set_point)

(* the P controller of get_control: velocities[i] = -10.0 * delta *)
Velocities(deltas) == [i \in 1..JointDim |-> (0 - Kp) * deltas[i]]

(* what get_control passes on: with dpos and rotation both given, line 175  *)
(* passes update_targets by position, where it lands in desired_rotation,   *)
(* and update_targets keeps its default False; rotation being given,        *)
(* desired_rotation is never read *)
GetControlPassed(c) ==
    IF c.dpos # None /\ c.rotation # None
    THEN [c EXCEPT !.update_targets = FALSE]
    ELSE c

(* get_control falling back on the current joint angles *)
GetControlHoldsStill(c) ==
    [exc |-> "", ik_pos |-> ik_robot_target_pos, ik_orn |-> ik_robot_target_orn,
     commanded_joint_positions |-> joint_pos,
     commanded_joint_velocities |-> Velocities(GetCurrentError(joint_pos, joint_pos))]

(* get_control(dpos, rotation, desired_rotation, z_rot, update_targets)    *)
(* from the line after pdb.set_trace() to its return or exception *)
GetControl(c) ==
    LET ik == JointPositionsForEefCommand(GetControlPassed(c))
        failed(e) == [exc |-> e, ik_pos |-> ik.ik_pos, ik_orn |-> ik.ik_orn,
                      commanded_joint_positions |-> commanded_joint_positions,
                      commanded_joint_velocities |-> commanded_joint_velocities]
    IN  IF ik.exc # "" THEN failed(ik.exc)
        ELSE IF ik.ret = None
        THEN [failed(IF c.z_rot # None THEN "IndexError" ELSE "TypeError")
                EXCEPT !.commanded_joint_positions = None]
        ELSE LET cjp == IF c.z_rot # None
                        THEN [ik.ret EXCEPT ![Len(ik.ret)] = joint_pos[JointDim] + c.z_rot[1]]
                        ELSE ik.ret
                 vel == Velocities(GetCurrentError(joint_pos, cjp))
             IN  [exc |-> "", ik_pos |-> ik.ik_pos, ik_orn |-> ik.ik_orn,
                  commanded_joint_positions |-> cjp,
                  commanded_joint_velocities |-> vel]

(* the user continues from pdb.set_trace(), and a set_goal whose            *)
(* get_control raises puts back the reference and the interpolator goals   *)
(* it found on entry *)
DebuggerContinueRollsBack ==
    /\ pc = "pdb"
    /\ \E gc \in {GetControl(call)} :
           /\ ik_robot_target_pos' = gc.ik_pos
           /\ ik_robot_target_orn' = gc.ik_orn
           /\ commanded_joint_positions' = gc.commanded_joint_positions
           /\ commanded_joint_velocities' = gc.commanded_joint_velocities
           /\ goal_vel' = IF gc.exc = "" /\ call.op # "get_control"
                          THEN gc.commanded_joint_velocities ELSE goal_vel
           /\ outcome' = IF gc.exc = "" THEN "ok" ELSE gc.exc
           /\ IF gc.exc # "" /\ call.op = "set_goal"
              THEN /\ reference_target_pos' = before_goal.reference_target_pos
                   /\ reference_target_orn' = before_goal.reference_target_orn
                   /\ interpolator_pos' = before_goal.interpolator_pos
                   /\ interpolator_ori' = before_goal.interpolator_ori
              ELSE UNCHANGED <<reference_target_pos, reference_target_orn,
                               interpolator_pos, interpolator_ori>>
    /\ pc' = "idle"
    /\ UNCHANGED <<cfgVars, sim, ee_pos, ee_ori_mat, joint_pos, ref_shares_ee,
                   ori_ref, relative_ori, call, goal_delta, last_op, after_reset, n_goals,
                   before_goal, interp_calls>>

(* the user continues from pdb.set_trace(): get_control runs to its end;   *)
(* if it returns inside set_goal or run_controller, that hands the         *)
(* velocities to the underlying velocity controller *)
DebuggerContinue ==
    /\ pc = "pdb"
    /\ \E gc \in {GetControl(call)} :
           /\ ik_robot_target_pos' = gc.ik_pos
           /\ ik_robot_target_orn' = gc.ik_orn
           /\ commanded_joint_positions' = gc.commanded_joint_positions
           /\ commanded_joint_velocities' = gc.commanded_joint_velocities
           /\ goal_vel' = IF gc.exc = "" /\ call.op # "get_control"
                          THEN gc.commanded_joint_velocities ELSE goal_vel
           /\ outcome' = IF gc.exc = "" THEN "ok" ELSE gc.exc
    /\ pc' = "idle"
    /\ UNCHANGED <<cfgVars, interpolator_pos, interpolator_ori, sim, ee_pos, ee_ori_mat,
                   joint_pos, reference_target_pos, reference_target_orn, ref_shares_ee,
                   ori_ref, relative_ori, call, goal_delta, last_op, after_reset, n_goals,
                   before_goal, interp_calls>>

(* the user quits the debugger: bdb.BdbQuit ends the pending call *)
DebuggerQuit ==
    /\ pc = "pdb"
    /\ pc' = "idle"
    /\ outcome' = "BdbQuit"
    /\ UNCHANGED <<cfgVars, interpolator_pos, interpolator_ori, sim, ee_pos, ee_ori_mat,
                   joint_pos, reference_target_pos, reference_target_orn, ref_shares_ee,
                   ori_ref, relative_ori, ik_robot_target_pos, ik_robot_target_orn,
                   commanded_joint_positions, commanded_joint_velocities, goal_vel,
                   call, goal_delta, last_op, after_reset, n_goals,
                   before_goal, interp_calls>>

(* argument lists of direct get_control calls: none at all; dpos with a    *)
(* rotation; dpos with a desired_rotation and a yaw increment *)
GetControlArgs ==
    { [NoCall EXCEPT !.op = "get_control"],
      [NoCall EXCEPT !.op = "get_control", !.dpos = <<3, 0, 0>>,
                     !.rotation = SetOri, !.update_targets = TRUE],
      [NoCall EXCEPT !.op = "get_control", !.dpos = <<0, 0, 3>>,
                     !.desired_rotation = SetOri, !.z_rot = <<50>>] }

(* get_control(...) called directly, up to the debugger stop inside        *)
(* joint_positions_for_eef_command *)
GetControlCall(args) ==
    /\ pc = "idle"
    /\ call' = args
    /\ pc' = "pdb"
    /\ outcome' = "pending"
    /\ interp_calls' = NoInterpCalls
    /\ last_op' = "get_control"
    /\ goal_delta' = None
    /\ before_goal' = None
    /\ after_reset' = FALSE
    /\ UNCHANGED <<cfgVars, interpolator_pos, interpolator_ori, sim, ee_pos, ee_ori_mat,
                   joint_pos, reference_target_pos, reference_target_orn, ref_shares_ee,
                   ori_ref, relative_ori, ik_robot_target_pos, ik_robot_target_orn,
                   commanded_joint_positions, commanded_joint_velocities, goal_vel,
                   n_goals>>

(* the simulator moves the arm between two controller calls *)
SimStep ==
    /\ pc = "idle"
    /\ \E k \in SimPoses : k # sim /\ sim' = k
    /\ UNCHANGED <<cfgVars, interpolator_pos, interpolator_ori, ee_pos, ee_ori_mat,
                   joint_pos, reference_target_pos, reference_target_orn, ref_shares_ee,
                   ori_ref, relative_ori, ik_robot_target_pos, ik_robot_target_orn,
                   commanded_joint_positions, commanded_joint_velocities, goal_vel,
                   pc, call, goal_delta, last_op, outcome, after_reset, n_goals,
                   before_goal, interp_calls>>

Next ==
    \/ \E delta \in Actions : SetGoal(delta)
    \/ RunController
    \/ ResetGoal
    \/ DebuggerContinue
    \/ DebuggerQuit
    \/ SimStep

Spec == Init /\ [][Next]_vars

TypeOK ==
    /\ pc \in {"idle", "pdb"}
    /\ n_goals \in 0..MaxGoals
    /\ Len(reference_target_pos) = 3
    /\ Len(reference_target_orn) = 5

(* ---------------------------------------------------------------------- *)
(* _clip_ik_input on its own                                               *)
(* ---------------------------------------------------------------------- *)

(* positional deltas range over the integer vectors of this box ... *)
ClipBox == 10

Dot(a, b) == a[1] * b[1] + a[2] * b[2] + a[3] * b[3]

(* ... on which the clipped vector is again an integer vector *)
ExactlyClippable(d) ==
    /\ Norm(d) * Norm(d) = NormSq(d)
    /\ \A i \in 1..3 : (d[i] * ik_pos_limit) % Norm(d) = 0

ClipInputs ==
    {d \in (-ClipBox..ClipBox) \X (-ClipBox..ClipBox) \X (-ClipBox..ClipBox) :
        NormSq(d) <= ik_pos_limit * ik_pos_limit \/ ExactlyClippable(d)}

InitClip ==
    /\ InitController
    /\ use_ori /\ ~use_z_ori /\ sim = 0
    /\ interpolator_pos = None /\ interpolator_ori = None
    /\ clip_in \in ClipInputs
    /\ clip_out = None
    /\ PushIdle
    /\ PlaceIdle

ClipCall ==
    /\ clip_out = None
    /\ clip_out' = ClipIkInputPos(clip_in)
    /\ UNCHANGED <<ctrlVars, clip_in, pushVars, placeVars>>

NextClip == ClipCall

SpecClip == InitClip /\ [][NextClip]_vars

(* ---------------------------------------------------------------------- *)
(* get_control called directly, between set_goal calls                     *)
(* ---------------------------------------------------------------------- *)

(* actions of the direct-call runs: a pure yaw action, a zero action, a    *)
(* full-pose action *)
YawActions == { <<0, 0, 0, 10>>, <<0, 0, 0, 0, 0, 0>>, <<10, 0, 0, 13, 0, 0>> }

InitGetControl ==
    /\ Init
    /\ interpolator_pos = None /\ interpolator_ori = None

NextGetControl ==
    \/ \E delta \in YawActions : SetGoal(delta)
    \/ \E args \in GetControlArgs : GetControlCall(args)
    \/ DebuggerContinue
    \/ DebuggerQuit

SpecGetControl == InitGetControl /\ [][NextGetControl]_vars

(* ---------------------------------------------------------------------- *)
(* Push.reward                                                              *)
(* Distances are in millimetres, reward_scale in tenths, rewards in units   *)
(* of 1 / RewardUnit, which keeps reward * reward_scale / 2 an integer.     *)
(* ---------------------------------------------------------------------- *)

RewardUnit == 200000

(* np.tanh(5.0 * dist) in thousandths, rounded, at the distances used *)
Tanh5(dist) ==
    CASE dist = 0 -> 0
      [] dist = 10 -> 50
      [] dist = 50 -> 245
      [] dist = 100 -> 462
      [] dist = 120 -> 537
      [] dist = 200 -> 762

(* planar and spatial distance of the cylinder to the goal *)
PushGoalDists ==
    { <<0, 0>>, <<10, 10>>, <<10, 50>>, <<50, 50>>, <<100, 100>>, <<100, 120>>,
      <<200, 200>> }

PushGripperDists == {0, 20, 300}

PushScales == {None, <<5>>, <<10>>, <<20>>}

(* _check_success: planar distance to the goal below 0.02 *)
CheckSuccess(obs) == obs.goal_dist_xy < 20

(* the un-scaled reward: 3.5 on success, else the shaping terms if enabled *)
UnscaledReward(obs, shaping) ==
    IF CheckSuccess(obs) THEN (35 * RewardUnit) \div 10
    ELSE IF shaping
    THEN (0 - obs.gripper_dist) * (RewardUnit \div 1000)
         + (IF obs.goal_dist < 120
            THEN (25 * (1000 - Tanh5(obs.goal_dist)) * (RewardUnit \div 1000)) \div 10
            ELSE 0)
    ELSE 0

(* reward *= self.reward_scale / 2. when a scale is set *)
Reward(obs, shaping, scale) ==
    IF scale # None
    THEN (UnscaledReward(obs, shaping) * scale[1]) \div 20
    ELSE UnscaledReward(obs, shaping)

InitPush ==
    /\ InitController
    /\ use_ori /\ ~use_z_ori /\ sim = 0
    /\ interpolator_pos = None /\ interpolator_ori = None
    /\ clip_in = <<0, 0, 0>>
    /\ clip_out = None
    /\ reward_scale \in PushScales
    /\ reward_shaping \in BOOLEAN
    /\ \E g \in PushGripperDists, d \in PushGoalDists :
          push_obs = [gripper_dist |-> g, goal_dist_xy |-> d[1], goal_dist |-> d[2]]
    /\ push_reward = None
    /\ PlaceIdle

(* reward(action) *)
PushRewardCall ==
    /\ push_reward = None
    /\ push_reward' = <<Reward(push_obs, reward_shaping, reward_scale)>>
    /\ UNCHANGED <<ctrlVars, clip_in, clip_out, reward_scale, reward_shaping, push_obs,
                   placeVars>>

NextPush == PushRewardCall

SpecPush == InitPush /\ [][NextPush]_vars

(* ---------------------------------------------------------------------- *)
(* TableTopTask.place_objects                                               *)
(* ---------------------------------------------------------------------- *)

(* the 1000 retries per object of line 70, scaled down *)
PlaceRetries == 3

(* np.random.uniform(high=half, low=-half): the grid points of the range *)
Uniform(half) == (0 - half)..half

(* lines 76-80: no object placed so far is within the sum of the radii of  *)
(* (object_x, object_y), each placed object taken at the x and y of the    *)
(* pos stored for it *)
LocationValid(object_x, object_y, horizontal_radius, placed) ==
    \A k \in 1..Len(placed) :
        ~(NormSq(<<object_x - placed[k][1][1], object_y - placed[k][1][2]>>)
            <= (placed[k][2] + horizontal_radius) * (placed[k][2] + horizontal_radius))

(* line 82: pos of an object sampled at (object_x, object_y) *)
PlacedPos(object_x, object_y, bottom_offset) ==
    VAdd(VSub(table_top_offset, bottom_offset), <<object_x, object_y, 0>>)

InitPlace ==
    /\ InitController
    /\ use_ori /\ ~use_z_ori /\ sim = 0
    /\ interpolator_pos = None /\ interpolator_ori = None
    /\ clip_in = <<0, 0, 0>>
    /\ clip_out = None
    /\ PushIdle
    /\ table_top_offset \in TableTopOffsets
    /\ mujoco_objects = MujocoObjects
    /\ objects_pos = [k \in 1..Len(MujocoObjects) |-> None]
    /\ placed_objects = <<>>
    /\ place_index = 0
    /\ place_tries = 0
    /\ place_pc = "idle"

(* place_objects() is called (from _load_model or _reset_internal): lines   *)
(* 61-62 and the first pass of line 69 *)
PlaceObjectsCall ==
    /\ place_pc # "placing"
    /\ placed_objects' = <<>>
    /\ place_index' = 0
    /\ place_tries' = 0
    /\ place_pc' = "placing"
    /\ UNCHANGED <<ctrlVars, clip_in, clip_out, pushVars, table_top_offset,
                   mujoco_objects, objects_pos>>

(* one pass of the retry loop, lines 70-87, and what follows a success:     *)
(* the next object, or the return *)
PlaceAttempt ==
    /\ place_pc = "placing"
    /\ place_tries < PlaceRetries
    /\ LET obj == mujoco_objects[place_index + 1]
           table_x_half == TableSize[1] \div 2 - obj.horizontal_radius
           table_y_half == TableSize[2] \div 2 - obj.horizontal_radius
       IN  \E object_x \in Uniform(table_x_half), object_y \in Uniform(table_y_half) :
             IF LocationValid(object_x, object_y, obj.horizontal_radius, placed_objects)
             THEN /\ placed_objects' =
                       Append(placed_objects,
                              <<PlacedPos(object_x, object_y, obj.bottom_offset),
                                obj.horizontal_radius>>)
                  /\ objects_pos' =
                       [objects_pos EXCEPT ![place_index + 1] =
                          PlacedPos(object_x, object_y, obj.bottom_offset)]
                  /\ place_index' = place_index + 1
                  /\ place_tries' = 0
                  /\ place_pc' = IF place_index + 1 = Len(mujoco_objects)
                                 THEN "returned" ELSE "placing"
             ELSE /\ place_tries' = place_tries + 1
                  /\ UNCHANGED <<placed_objects, objects_pos, place_index, place_pc>>
    /\ UNCHANGED <<ctrlVars, clip_in, clip_out, pushVars, table_top_offset,
                   mujoco_objects>>

(* lines 89-90: the retries are used up *)
PlaceGiveUp ==
    /\ place_pc = "placing"
    /\ place_tries = PlaceRetries
    /\ place_pc' = "RandomizationError"
    /\ UNCHANGED <<ctrlVars, clip_in, clip_out, pushVars, table_top_offset,
                   mujoco_objects, objects_pos, placed_objects, place_index,
                   place_tries>>

NextPlace ==
    \/ PlaceObjectsCall
    \/ PlaceAttempt
    \/ PlaceGiveUp

SpecPlace == InitPlace /\ [][NextPlace]_vars

(* ---------------------------------------------------------------------- *)
(* Properties                                                               *)
(* ---------------------------------------------------------------------- *)

ZeroVel == [i \in 1..JointDim |-> 0]

Trace3(m) == m[1][1] + m[2][2] + m[3][3]

(* the rotation angle a of matrix m is at most limit: cos(a) >= cos(limit), *)
(* with cos(a) = (trace - 1) / 2 *)
RotAngleWithin(m, limit) ==
    LET t == HalfAngleTrig(limit)
    IN  (Trace3(m) - m[4]) * t[3] * t[3] >= 2 * m[4] * (t[2] * t[2] - t[1] * t[1])

(* C1: every set_goal(delta) that gets past the clipping of line 273 moves  *)
(* reference_target_pos by user_sensitivity * clip(delta[:3], ik_pos_limit), *)
(* once: the delta is clipped first and scaled afterwards. *)
C1_RefPosMovesByScaledClip ==
    [][(n_goals' = n_goals + 1 /\ outcome' # "ValueError")
       => reference_target_pos' =
            VAdd(reference_target_pos,
                 VScale(ClipTranslation(Slice(goal_delta', 0, 3), ik_pos_limit), UserSensNum))]_vars

(* set_goal([0.1, 0, 0]) with ik_pos_limit = 0.05 has moved the reference by *)
(* 0.05 * 0.3 along x *)
C1_Witness ==
    /\ goal_delta = <<2 * ik_pos_limit, 0, 0, 13, 0, 0>>
    /\ ee_pos = <<0, 0, 0>>
    /\ reference_target_pos = <<ik_pos_limit * UserSensNum, 0, 0>>

(* C2: when run_controller() directly follows reset_goal() and has ended,   *)
(* the goal of the underlying velocity controller is the zero vector. *)
C2_ZeroVelocityAfterReset ==
    (last_op = "run_controller" /\ after_reset /\ pc = "idle" /\ outcome # "BdbQuit")
    => goal_vel = ZeroVel

(* C3: once get_control has been called and has ended,                      *)
(* commanded_joint_positions is a sequence of joint_dim joint angles. *)
C3_CommandedPositionsLength ==
    (call.op # "none" /\ pc = "idle" /\ outcome # "BdbQuit")
    => Len(commanded_joint_positions) = JointDim

(* C4: both arrays of control_limits have control_dim entries, the low one  *)
(* is the negation of the high one, and control_dim is 3, 4 or 6. *)
C4_ControlLimitsMatchDim ==
    LET cl == ControlLimits(use_ori, use_z_ori)
        dim == ControlDim(use_ori, use_z_ori)
    IN  /\ Len(cl[1]) = dim
        /\ Len(cl[2]) = dim
        /\ cl[1] = VScale(cl[2], -1)
        /\ dim \in {3, 4, 6}

(* C5: no step of a run_controller() call changes reference_target_pos,     *)
(* reference_target_orn, ik_robot_target_pos or ik_robot_target_orn. *)
C5_RunControllerKeepsTargets ==
    [][last_op' = "run_controller"
       => UNCHANGED <<reference_target_pos, reference_target_orn,
                      ik_robot_target_pos, ik_robot_target_orn>>]_vars

(* a run_controller() call that went through get_control has ended, with a  *)
(* reference that a set_goal had moved away from the observed pose *)
C5_Witness ==
    /\ last_op = "run_controller" /\ pc = "idle" /\ call.op = "run_controller"
    /\ outcome = "TypeError"
    /\ n_goals > 0
    /\ reference_target_pos # ee_pos

(* C6 as stated: a set_goal with an all-zero delta changes neither          *)
(* reference_target_pos nor reference_target_orn, in any mode. *)
C6_ZeroDeltaChangesNothing ==
    [][(n_goals' = n_goals + 1 /\ ~VAny(goal_delta'))
       => UNCHANGED <<reference_target_pos, reference_target_orn>>]_vars

(* C6 as amended: a set_goal with an all-zero delta never changes           *)
(* reference_target_pos; it leaves reference_target_orn unchanged in        *)
(* full-pose mode and sets it to the quaternion of the fixed orientation in *)
(* the position-only modes. *)
C6_ZeroDeltaKeepsPosPinsOrn ==
    [][(n_goals' = n_goals + 1 /\ ~VAny(goal_delta'))
       => /\ reference_target_pos' = reference_target_pos
          /\ use_ori => reference_target_orn' = reference_target_orn
          /\ ~use_ori => reference_target_orn' = Mat2Quat(SetOri)]_vars

(* a second set_goal, with a zero delta, has acted on a full-pose           *)
(* controller whose reference an earlier set_goal had moved and turned *)
C6_Witness ==
    /\ use_ori /\ ~use_z_ori
    /\ goal_delta = <<0, 0, 0, 0, 0, 0>> /\ n_goals = 2
    /\ reference_target_pos # ee_pos
    /\ reference_target_orn # Mat2Quat(ee_ori_mat)

(* C7: _clip_ik_input returns a delta longer than ik_pos_limit with length  *)
(* exactly ik_pos_limit and the same direction, and any other delta         *)
(* unchanged. *)
C7_ClipKeepsDirection ==
    clip_out # None
    => IF NormSq(clip_in) > ik_pos_limit * ik_pos_limit
       THEN /\ NormSq(clip_out) = ik_pos_limit * ik_pos_limit
            /\ Cross(clip_out, clip_in) = <<0, 0, 0>>
            /\ Dot(clip_out, clip_in) > 0
       ELSE clip_out = clip_in

(* an oblique delta of twice the limit has been clipped *)
C7_Witness == clip_in = <<6, -8, 0>> /\ clip_out = <<3, -4, 0>>

(* C8: the rotational command a set_goal hands to get_control is at most    *)
(* ik_ori_limit in angle: the relative rotation in full-pose mode, z_rot in *)
(* yaw-only mode. *)
C8_RotationWithinLimit ==
    call.op = "set_goal"
    => /\ call.rotation # None => RotAngleWithin(call.rotation, ik_ori_limit)
       /\ call.z_rot # None => Abs(call.z_rot[1]) <= ik_ori_limit * RadUnit

(* C9: reference_target_orn is a unit quaternion in every reachable state. *)
C9_ReferenceOrnIsUnit == IsUnitQuat(reference_target_orn)

(* two set_goal calls have composed rotations into the reference of a       *)
(* full-pose controller *)
C9_Witness ==
    /\ use_ori /\ ~use_z_ori
    /\ goal_delta = <<-3, 0, 4, 0, 0, 31>> /\ n_goals = 2
    /\ reference_target_orn[5] > 25

(* C10: when get_control ends it has stored joint_dim velocities            *)
(* -10 * (joint_pos[i] - commanded_joint_positions[i]). *)
C10_VelocitiesFollowPLaw ==
    [][DebuggerContinue
       => /\ Len(commanded_joint_velocities') = JointDim
          /\ Len(commanded_joint_positions') = JointDim
          /\ \A i \in 1..JointDim :
                commanded_joint_velocities'[i] =
                    (0 - Kp) * (joint_pos'[i] - commanded_joint_positions'[i])]_vars

(* C11: when a yaw-only controller has finished a set_goal carrying only a  *)
(* yaw component, commanded_joint_positions has joint_dim entries and its   *)
(* last one is the current last joint angle plus z_rot. *)
C11_YawOnlyMovesLastJoint ==
    (~use_ori /\ use_z_ori /\ goal_delta = <<0, 0, 0, 10>>
        /\ pc = "idle" /\ outcome # "BdbQuit")
    => /\ Len(commanded_joint_positions) = JointDim
       /\ commanded_joint_positions[JointDim] = joint_pos[JointDim] + call.z_rot[1]

(* C12: a set_goal whose action has not control_dim entries ends in an      *)
(* invalid-argument error; it never goes on with part of the vector. *)
C12_WrongLengthRejected ==
    (goal_delta # None /\ Len(goal_delta) # ControlDim(use_ori, use_z_ori))
    => outcome \in {"ValueError", "IndexError"}

NonLinearInterpolator ==
    \/ (interpolator_pos # None /\ interpolator_pos[1].order # 1)
    \/ (interpolator_ori # None /\ interpolator_ori[1].order # 1)

AllAbsent(c) == c.dpos = None /\ c.rotation = None /\ c.desired_rotation = None

C15_NoArgumentsUsesRecordedTarget ==
    [][(last_op' = "get_control" /\ AllAbsent(call') /\ pc = "pdb" /\ pc' = "idle"
            /\ outcome' # "BdbQuit")
       => /\ outcome' = "ok"
          /\ Len(commanded_joint_velocities') = JointDim
          /\ UNCHANGED <<ik_robot_target_pos, ik_robot_target_orn,
                         reference_target_pos, reference_target_orn>>]_vars

(* C16: right after reset_goal() the reference is the observed pose:        *)
(* reference_target_pos is ee_pos and reference_target_orn is the           *)
(* quaternion of ee_ori_mat. *)
C16_ResetGoalResyncs ==
    last_op = "reset_goal"
    => /\ reference_target_pos = ee_pos
       /\ reference_target_orn = Mat2Quat(ee_ori_mat)

(* reset_goal() has acted on a full-pose controller after two set_goal      *)
(* calls, away from the initial pose *)
C16_Witness ==
    /\ last_op = "reset_goal" /\ n_goals = 2
    /\ use_ori /\ ~use_z_ori
    /\ ee_pos # <<0, 0, 0>>

(* C17: no set_goal or run_controller call ever waits for interactive       *)
(* input. *)
C17_NeverWaitsForInput == pc # "pdb"

ObservedPositions == {SimEEPos(k) : k \in SimPoses}

C20_RecomputesOnlyWhenInterpolating ==
    [][last_op' = "run_controller"
       => IF interpolator_pos = None /\ interpolator_ori = None
          THEN /\ pc' = "idle"
               /\ UNCHANGED <<commanded_joint_positions, commanded_joint_velocities,
                              goal_vel>>
          ELSE (pc' = "idle" /\ outcome' # "BdbQuit")
               => /\ Len(commanded_joint_velocities') = JointDim
                  /\ goal_vel' = commanded_joint_velocities']_vars

(* C19: with a reward_scale set, reward() returns at most reward_scale, and  *)
(* exactly reward_scale when the task is completed. *)
C19_RewardAtMostScale ==
    (push_reward # None /\ reward_scale # None)
    => /\ 10 * push_reward[1] <= reward_scale[1] * RewardUnit
       /\ CheckSuccess(push_obs) => 10 * push_reward[1] = reward_scale[1] * RewardUnit

(* C21: with a position interpolator, a set_goal hands it one goal: the     *)
(* reference position found on entry plus the clipped, sensitivity-scaled   *)
(* delta, which is the reference_target_pos the call leaves. *)
C21_PosGoalIsUpdatedReference ==
    (goal_delta # None /\ outcome # "ValueError" /\ interpolator_pos # None)
    => /\ interp_calls.pos_set_goal = 1
       /\ interpolator_pos[1].goal =
            VAdd(before_goal.reference_target_pos,
                 VScale(ClipTranslation(Slice(goal_delta, 0, 3), ik_pos_limit),
                        UserSensNum))
       /\ interpolator_pos[1].goal = reference_target_pos

(* the second set_goal of a controller with a position interpolator has     *)
(* ended, its delta beyond the position limit, the reference moved twice *)
C21_Witness ==
    /\ interpolator_pos # None
    /\ goal_delta = <<2 * ik_pos_limit, 0, 0, 13, 0, 0>> /\ n_goals = 2 /\ pc = "idle"
    /\ before_goal.reference_target_pos # SimEEPos(sim)
    /\ interpolator_pos[1].goal =
         VAdd(before_goal.reference_target_pos, <<ik_pos_limit * UserSensNum, 0, 0>>)

(* C22: with an orientation interpolator, a set_goal hands it the clipped   *)
(* relative rotation, makes ori_ref the orientation observed at that call   *)
(* and relative_ori zero; without one, ori_ref and relative_ori stay        *)
(* unwritten. *)
C22_OriGoalIsRelativeRotation ==
    /\ (goal_delta # None /\ outcome # "ValueError" /\ interpolator_ori # None)
       => /\ interp_calls.ori_set_goal = 1
          /\ interpolator_ori[1].goal =
               ClipRotation(AxisAngle2Quat(Slice(goal_delta, 3, 7)), ik_ori_limit)
          /\ ori_ref = ee_ori_mat
          /\ relative_ori = <<0, 0, 0, 1>>
    /\ interpolator_ori = None => (ori_ref = None /\ relative_ori = None)

(* a set_goal with a rotation beyond the limit on a controller with an      *)
(* orientation interpolator, the arm in its second pose, the reference      *)
(* already turned by an earlier set_goal *)
C22_Witness ==
    /\ interpolator_ori # None
    /\ goal_delta = <<-3, 0, 4, 0, 0, 31>> /\ n_goals = 2
    /\ use_ori /\ sim = 1 /\ ori_ref = SimEEOri(1)
    /\ interpolator_ori[1].goal # QuatIdentity
    /\ before_goal.reference_target_orn # QuatIdentity

(* C23: in position-only mode, after a set_goal the reference orientation   *)
(* is the quaternion of [[0,1,0],[1,0,0],[0,0,-1]], and that matrix is the  *)
(* desired_rotation handed to get_control, whatever the action held and     *)
(* whatever the reference was before. *)
C23_PositionOnlyPinsOrientation ==
    (~use_ori /\ goal_delta # None /\ outcome # "ValueError")
    => /\ reference_target_orn = Mat2Quat(<<<<0, 1, 0>>, <<1, 0, 0>>, <<0, 0, -1>>, 1>>)
       /\ pc = "pdb" => /\ call.desired_rotation = <<<<0, 1, 0>>, <<1, 0, 0>>, <<0, 0, -1>>, 1>>
                        /\ call.rotation = None

(* a position-only set_goal whose action carries a rotation has reached     *)
(* get_control, the reference having held another orientation before *)
C23_Witness ==
    /\ ~use_ori /\ ~use_z_ori
    /\ goal_delta = <<2 * ik_pos_limit, 0, 0, 13, 0, 0>> /\ pc = "pdb"
    /\ before_goal.reference_target_orn # reference_target_orn
    /\ call.desired_rotation = SetOri

(* C24: every run_controller() invokes get_interpolated_goal once on each   *)
(* configured order-1 interpolator; set_goal and reset_goal never invoke    *)
(* it; every set_goal overwrites the goal of each configured interpolator   *)
(* once. *)
C24_OneQueryPerTick ==
    /\ last_op = "run_controller"
       => /\ (interpolator_pos # None /\ interpolator_pos[1].order = 1)
             => interp_calls.pos_get_interpolated_goal = 1
          /\ (interpolator_ori # None /\ interpolator_ori[1].order = 1)
             => interp_calls.ori_get_interpolated_goal = 1
    /\ last_op \in {"set_goal", "reset_goal"}
       => /\ interp_calls.pos_get_interpolated_goal = 0
          /\ interp_calls.ori_get_interpolated_goal = 0
    /\ (goal_delta # None /\ outcome # "ValueError")
       => /\ interpolator_pos # None => interp_calls.pos_set_goal = 1
          /\ interpolator_ori # None => interp_calls.ori_set_goal = 1

(* C25: a set_goal that has run the IK has added its clipped, scaled delta  *)
(* to ik_robot_target_pos as it has to reference_target_pos, so their       *)
(* difference is what it was before the call. *)
C25_IkTargetFollowsReference ==
    (goal_delta # None /\ pc = "idle" /\ outcome \notin {"ValueError", "BdbQuit"})
    => /\ Len(ik_robot_target_pos) = 3
       /\ Len(before_goal.ik_robot_target_pos) = 3
       /\ VSub(ik_robot_target_pos, reference_target_pos) =
            VSub(before_goal.ik_robot_target_pos, before_goal.reference_target_pos)

(* C26 as stated: a set_goal that ended in an error raised in the IK or     *)
(* velocity computation has left the reference pose, the interpolator       *)
(* goals and the velocity goal as it found them. *)
C26_FailedSetGoalChangesNothing ==
    (goal_delta # None /\ pc = "idle" /\ outcome = "TypeError")
    => /\ reference_target_pos = before_goal.reference_target_pos
       /\ reference_target_orn = before_goal.reference_target_orn
       /\ interpolator_pos = before_goal.interpolator_pos
       /\ interpolator_ori = before_goal.interpolator_ori
       /\ goal_vel = before_goal.goal_vel

(* C26, amended: a set_goal that ended in an error raised in the IK or      *)
(* velocity computation has left the velocity goal as it found it, while    *)
(* the reference pose and the interpolator goals hold what the call gave    *)
(* them: the position moved by the clipped, scaled delta, the orientation   *)
(* composed with the clipped rotation (pinned in position-only mode), the   *)
(* interpolator goals overwritten. *)
C26_FailedSetGoalKeepsOnlyVelocityGoal ==
    (goal_delta # None /\ pc = "idle" /\ outcome = "TypeError")
    => /\ goal_vel = before_goal.goal_vel
       /\ reference_target_pos =
            VAdd(before_goal.reference_target_pos,
                 VScale(ClipTranslation(Slice(goal_delta, 0, 3), ik_pos_limit),
                        UserSensNum))
       /\ reference_target_orn =
            IF use_ori
            THEN QuatMultiply(before_goal.reference_target_orn,
                              ClipRotation(AxisAngle2Quat(Slice(goal_delta, 3, 6)),
                                           ik_ori_limit))
            ELSE Mat2Quat(SetOri)
       /\ interpolator_pos # None => interpolator_pos[1].goal = reference_target_pos
       /\ interpolator_ori # None
          => interpolator_ori[1].goal =
               ClipRotation(AxisAngle2Quat(Slice(goal_delta, 3, 6)), ik_ori_limit)

(* a full-pose set_goal with both a translation and a rotation beyond the   *)
(* limits has failed inside get_control on a controller with a position     *)
(* interpolator: reference and interpolator goal have moved *)
C26_Witness ==
    /\ goal_delta = <<-3, 0, 4, 0, 0, 31>> /\ pc = "idle" /\ outcome = "TypeError"
    /\ call.op = "set_goal" /\ use_ori /\ interpolator_pos # None
    /\ reference_target_pos # before_goal.reference_target_pos
    /\ reference_target_orn # before_goal.reference_target_orn
    /\ interpolator_pos # before_goal.interpolator_pos

(* C27: place_objects makes at most the allowed attempts per object, and    *)
(* either returns with every two objects further apart, centre to centre in *)
(* the horizontal plane, than the sum of their horizontal radii, or raises  *)
(* RandomizationError for the first object whose attempts all failed. *)
C27_PlacedApartOrError ==
    /\ place_tries <= PlaceRetries
    /\ place_pc = "returned"
       => \A a, b \in 1..Len(mujoco_objects) :
            a < b
            => NormSq(<<objects_pos[a][1] - objects_pos[b][1],
                        objects_pos[a][2] - objects_pos[b][2]>>)
                 > (mujoco_objects[a].horizontal_radius + mujoco_objects[b].horizontal_radius)
                   * (mujoco_objects[a].horizontal_radius + mujoco_objects[b].horizontal_radius)
    /\ place_pc = "RandomizationError"
       => /\ place_tries = PlaceRetries
          /\ place_index = Len(placed_objects)
          /\ place_index < Len(mujoco_objects)

====
